---- MODULE Spec2Model ----
(***************************************************************************)
(* Model of basic_ui.py: the three request handlers process_ocr,           *)
(* process_transcription and process_translation, the image resolution     *)
(* get_image_path and the OCR renderer plot_bounding_boxes.                *)
(*                                                                         *)
(* An invocation is a record with a program counter; one action is one     *)
(* step of a handler (a function entry, a loop iteration, a return).  The  *)
(* file system is shared by all invocations.  The provider adapter         *)
(* (supercontrast_client(...).request(...)), os.makedirs and Image.save    *)
(* are external: each either returns or raises, nondeterministically.      *)
(***************************************************************************)
EXTENDS Integers, Sequences, FiniteSets, TLC

VARIABLES inv, fs

vars == <<inv, fs>>

(***************************************************************************)
(* Bounds of the model.                                                    *)
(***************************************************************************)
\* longest provider selection handed to a handler
MaxSel == 3
\* bounding-box coordinates range over 0..MaxCoord
MaxCoord == 1

\* the invocations that may be in flight
Invs == {1, 2}

(***************************************************************************)
(* Program constants.                                                      *)
(***************************************************************************)
OCR_PROVIDERS == <<"API4AI", "AWS", "AZURE", "CLARIFAI", "GCP", "SENTISIGHT">>

TRANSCRIPTION_PROVIDERS == <<"AZURE", "OPENAI">>

TRANSLATION_PROVIDERS == <<"ANTHROPIC", "AWS", "AZURE", "GCP", "MODERNMT", "OPENAI">>

OUTPUT_DIR == "test_data/ocr"

\* the suffixes get_image_path accepts when it searches a directory
IMAGE_SUFFIXES == {".png", ".jpg", ".jpeg", ".tiff", ".bmp", ".gif"}

\* the member names of the Provider enumeration the file refers to
ProviderEnum ==
    {"AWS", "GCP", "AZURE", "SENTISIGHT", "CLARIFAI", "API4AI",
     "ANTHROPIC", "MODERNMT", "OPENAI"}

\* provider.value of a member, as it appears in the name of a saved plot
ProviderValue(member) ==
    CASE member = "AWS" -> "aws"
      [] member = "GCP" -> "gcp"
      [] member = "AZURE" -> "azure"
      [] member = "SENTISIGHT" -> "sentisight"
      [] member = "CLARIFAI" -> "clarifai"
      [] member = "API4AI" -> "api4ai"
      [] member = "ANTHROPIC" -> "anthropic"
      [] member = "MODERNMT" -> "modernmt"
      [] OTHER -> "openai"

(***************************************************************************)
(* Dictionaries.  A Python dict keeps insertion order: it is a sequence of *)
(* <<key, value>> pairs with distinct keys.                                *)
(***************************************************************************)
DictHas(d, k) == \E j \in 1..Len(d) : d[j][1] = k

DictGet(d, k) == d[CHOOSE j \in 1..Len(d) : d[j][1] = k][2]

DictSet(d, k, v) ==
    IF DictHas(d, k)
    THEN [j \in 1..Len(d) |-> IF d[j][1] = k THEN <<k, v>> ELSE d[j]]
    ELSE Append(d, <<k, v>>)

DictKeys(d) == {d[j][1] : j \in 1..Len(d)}

(***************************************************************************)
(* Images and the file system.                                             *)
(* A raster image is what it shows: the picture it started from (base)     *)
(* and the rectangles and labels drawn over it.  A path is a directory     *)
(* and a file name; the empty name is the directory itself.                *)
(***************************************************************************)
Picture(base) == [base |-> base, rects |-> <<>>, texts |-> <<>>]

NoImage == Picture("")

Path(dir, name) == [dir |-> dir, name |-> name]

NoPath == Path("", "")

\* os.path.join(dir, name)
Join(dir, name) == Path(dir, name)

\* os.path.basename(path)
Basename(path) == path.name

IsDir(fsys, path) == path.name = "" /\ path.dir \in fsys.dirs

IsFile(fsys, path) == path \in DOMAIN fsys.files

\* os.listdir(dir): the names of the files in it
ListDir(fsys, dir) == {p.name : p \in {q \in DOMAIN fsys.files : q.dir = dir}}

\* the suffix of file.lower() that endswith() looks at
LowerSuffix(file) ==
    CASE file = "photo.png" -> ".png"
      [] file = "SCAN.JPG" -> ".jpg"
      [] file = "temp_input_image.png" -> ".png"
      [] file = "notes.txt" -> ".txt"
      [] OTHER -> ""

\* Image.save(path) / writing a file
WriteFile(fsys, path, image) ==
    [fsys EXCEPT !.files =
        [q \in (DOMAIN fsys.files) \cup {path} |->
            IF q = path THEN image ELSE fsys.files[q]]]

\* os.makedirs(dir, exist_ok=True)
MakeDirs(fsys, dir) == [fsys EXCEPT !.dirs = @ \cup {dir}]

\* the files and directories the program starts with
InitialFiles ==
    (Path("a", "photo.png") :> Picture("imgA"))
    @@ (Path("a", "notes.txt") :> Picture("text"))
    @@ (Path("b", "photo.png") :> Picture("imgB"))
    @@ (Path("b", "SCAN.JPG") :> Picture("imgS"))
    @@ (Path("docs", "notes.txt") :> Picture("text"))
    @@ (Path(".", "dummy.png") :> Picture("dummy"))

InitialDirs == {".", "a", "b", "docs", "empty"}

(***************************************************************************)
(* Image inputs: a string (a path), a PIL image, or something else.        *)
(***************************************************************************)
StrInput(path) == [type |-> "str", path |-> path, data |-> NoImage]

PilInput(image) == [type |-> "pil", path |-> NoPath, data |-> image]

OtherInput == [type |-> "other", path |-> NoPath, data |-> NoImage]

NoInput == [type |-> "", path |-> NoPath, data |-> NoImage]

ImageInputs ==
    {StrInput(Path("a", "photo.png")),
     StrInput(Path("b", "")),
     StrInput(Path("docs", "")),
     StrInput(Path("empty", "")),
     StrInput(Path("a", "missing.png")),
     PilInput(Picture("imgP")),
     OtherInput}

(***************************************************************************)
(* get_image_path: the set of its outcomes, each the path returned or the  *)
(* exception raised, and the file system it leaves.  os.listdir gives the  *)
(* names in no particular order, so any image file of a directory may be   *)
(* the first one found.                                                    *)
(***************************************************************************)
Returned(path, fsys) == [err |-> "", path |-> path, fs |-> fsys]

Raised(err, fsys) == [err |-> err, path |-> NoPath, fs |-> fsys]

\* as get_image_path, but a string that is no directory is returned as it is
get_image_path_unchecked(image_input, fsys) ==
    IF image_input.type = "str"
    THEN IF IsDir(fsys, image_input.path)
         THEN LET dir == image_input.path.dir
                  found == {file \in ListDir(fsys, dir) :
                               LowerSuffix(file) \in IMAGE_SUFFIXES}
              IN  IF found # {}
                  THEN {Returned(Join(dir, file), fsys) : file \in found}
                  ELSE {Raised("ValueError", fsys)}
         ELSE {Returned(image_input.path, fsys)}
    ELSE IF image_input.type = "pil"
         THEN LET temp_path == Join(OUTPUT_DIR, "temp_input_image.png")
              IN  IF OUTPUT_DIR \in fsys.dirs
                  THEN {Returned(temp_path,
                                 WriteFile(fsys, temp_path, image_input.data))}
                  ELSE {Raised("FileNotFoundError", fsys)}
         ELSE {Raised("ValueError", fsys)}

get_image_path(image_input, fsys) ==
    IF image_input.type = "str"
    THEN IF IsDir(fsys, image_input.path)
         THEN LET dir == image_input.path.dir
                  found == {file \in ListDir(fsys, dir) :
                               LowerSuffix(file) \in IMAGE_SUFFIXES}
              IN  IF found # {}
                  THEN {Returned(Join(dir, file), fsys) : file \in found}
                  ELSE {Raised("ValueError", fsys)}
         ELSE IF IsFile(fsys, image_input.path)
              THEN {Returned(image_input.path, fsys)}
              ELSE {Raised("ValueError", fsys)}
    ELSE IF image_input.type = "pil"
         THEN LET temp_path == Join(OUTPUT_DIR, "temp_input_image.png")
              IN  IF OUTPUT_DIR \in fsys.dirs
                  THEN {Returned(temp_path,
                                 WriteFile(fsys, temp_path, image_input.data))}
                  ELSE {Raised("FileNotFoundError", fsys)}
         ELSE {Raised("ValueError", fsys)}

(***************************************************************************)
(* Responses of the provider adapter.                                      *)
(* An OCR response has all_text and bounding_boxes; a box has a sequence   *)
(* of corner coordinates and a text.  A transcription or translation       *)
(* response has a text.                                                    *)
(***************************************************************************)
Box(x0, y0, x2, y2, text) ==
    [coordinates |-> <<<<x0, y0>>, <<x2, y0>>, <<x2, y2>>, <<x0, y2>>>>,
     text |-> text]

\* a box with too few corners: box.coordinates[2] does not exist
ShortBox == [coordinates |-> <<<<0, 0>>, <<1, 0>>>>, text |-> "short"]

OcrResponse(all_text, boxes) == [all_text |-> all_text, bounding_boxes |-> boxes]

\* what an OCR provider may answer in a request handled by process_ocr
OcrResponses ==
    {OcrResponse("HELLO", <<Box(0, 0, 1, 1, "HELLO")>>),
     OcrResponse("up left", <<Box(1, 1, 0, 0, "up"), Box(1, 0, 1, 0, "left")>>),
     OcrResponse("short", <<ShortBox>>)}

\* what a transcription or translation provider may answer
TextResponses == {[text |-> "bonjour"], [text |-> "salut"]}

\* supercontrast_client(task, providers=[provider]).request(request):
\* a response, or an exception
AdapterOutcomes(task) ==
    IF task = "ocr"
    THEN {[ok |-> FALSE, response |-> OcrResponse("", <<>>)]}
         \cup {[ok |-> TRUE, response |-> resp] : resp \in OcrResponses}
    ELSE {[ok |-> FALSE, response |-> [text |-> ""]]}
         \cup {[ok |-> TRUE, response |-> resp] : resp \in TextResponses}

(***************************************************************************)
(* Drawing (plot_bounding_boxes, the body of its loop).                    *)
(***************************************************************************)
\* as Subplots, but the axes of the previous provider are drawn on again
SubplotsSameAxes(fig, img) == IF fig = NoImage THEN img ELSE fig

\* plt.subplots() and ax.imshow(img): a new figure that shows img
Subplots(fig, img) == img

\* as RectangleWidth, but a negative extent is clamped to zero
RectangleWidthClamped(x0, x2) == IF x2 - x0 < 0 THEN 0 ELSE x2 - x0

\* box.coordinates[2][0] - box.coordinates[0][0]
RectangleWidth(x0, x2) == x2 - x0

\* box.coordinates[2][1] - box.coordinates[0][1]
RectangleHeight(y0, y2) == y2 - y0

\* patches.Rectangle(xy, width, height, ...) for a box; Python counts the
\* corners from 0, a sequence here from 1
Rectangle(box) ==
    [xy |-> <<box.coordinates[1][1], box.coordinates[1][2]>>,
     width |-> RectangleWidth(box.coordinates[1][1], box.coordinates[3][1]),
     height |-> RectangleHeight(box.coordinates[1][2], box.coordinates[3][2]),
     edgecolor |-> "r",
     facecolor |-> "none"]

\* ax.text(x, y, s, ...) for a box
TextLabel(box) ==
    [x |-> box.coordinates[1][1], y |-> box.coordinates[1][2],
     s |-> box.text, color |-> "blue"]

\* the loop over ocr_response.bounding_boxes: the axes after it, or the
\* IndexError of a box without coordinates[2]
RECURSIVE DrawBoxes(_, _)
DrawBoxes(ax, boxes) ==
    IF boxes = <<>>
    THEN [err |-> "", ax |-> ax]
    ELSE LET box == Head(boxes)
         IN  IF Len(box.coordinates) < 3
             THEN [err |-> "IndexError", ax |-> ax]
             ELSE DrawBoxes([ax EXCEPT !.rects = Append(@, Rectangle(box)),
                                       !.texts = Append(@, TextLabel(box))],
                            Tail(boxes))

\* f"ocr_{provider.value}_{image_name}" under output_dir
OutputPath(output_dir, provider, image_path) ==
    Join(output_dir, "ocr_" \o ProviderValue(provider) \o "_" \o Basename(image_path))

(***************************************************************************)
(* Assembly of the output sequence.                                        *)
(***************************************************************************)
\* as AssembleOcr, but a provider without a plot gets no position
RECURSIVE AssembleOcrPresentOnly(_, _, _)
AssembleOcrPresentOnly(plot_results, order, dummy) ==
    IF order = <<>>
    THEN <<>>
    ELSE LET provider == Head(order)
             slot == IF DictHas(plot_results, provider)
                     THEN <<DictGet(plot_results, provider).image,
                            DictGet(plot_results, provider).text>>
                     ELSE <<>>
         IN  slot \o AssembleOcrPresentOnly(plot_results, Tail(order), dummy)

\* process_ocr, the loop over OCR_PROVIDERS; dummy is Image.open("dummy.png")
RECURSIVE AssembleOcr(_, _, _)
AssembleOcr(plot_results, order, dummy) ==
    IF order = <<>>
    THEN <<>>
    ELSE LET provider == Head(order)
             slot == IF DictHas(plot_results, provider)
                     THEN <<DictGet(plot_results, provider).image,
                            DictGet(plot_results, provider).text>>
                     ELSE <<dummy, "foo bar">>
         IN  slot \o AssembleOcr(plot_results, Tail(order), dummy)

\* as AssembleText, but the answers are laid out in the order they arrived
AssembleTextArrivalOrder(results, order) ==
    [k \in 1..Len(order) |-> IF k <= Len(results) THEN results[k][2] ELSE ""]

\* [results.get(provider, "") for provider in order]
AssembleText(results, order) ==
    [k \in 1..Len(order) |->
        IF DictHas(results, order[k]) THEN DictGet(results, order[k]) ELSE ""]

(***************************************************************************)
(* Invocations.                                                            *)
(***************************************************************************)
IdleInvocation ==
    [pc |-> "idle", task |-> "", input |-> NoInput, providers |-> <<>>,
     options |-> <<>>, image_path |-> NoPath, idx |-> 0, results |-> <<>>,
     plot_arg |-> NoInput, responses |-> <<>>, output_dir |-> "",
     plot_path |-> NoPath, img |-> NoImage, pidx |-> 0, fig |-> NoImage,
     img_result |-> NoImage, plot_results |-> <<>>, response |-> <<>>,
     error |-> "", calls |-> <<>>]

\* an exception leaves the handler
Raise(r, err) == [r EXCEPT !.pc = "raised", !.error = err]

\* the call plot_bounding_boxes(image_path, responses, output_dir)
CallPlot(r, image_path, responses, output_dir) ==
    [r EXCEPT !.pc = "plot_open", !.plot_arg = image_path,
              !.responses = responses, !.output_dir = output_dir]

\* return results: back in process_ocr, or back at a direct caller
ReturnFromPlot(r) ==
    [r EXCEPT !.pc = IF r.task = "ocr" THEN "ocr_assemble" ELSE "returned"]

(***************************************************************************)
(* process_ocr                                                             *)
(***************************************************************************)
\* the display layer calls process_ocr(image, providers)
CallProcessOcr(i, image, providers) ==
    /\ inv[i].pc = "idle"
    /\ inv' = [inv EXCEPT ![i] =
                  [IdleInvocation EXCEPT !.pc = "ocr_resolve", !.task = "ocr",
                                         !.input = image,
                                         !.providers = providers]]
    /\ UNCHANGED fs

\* image_path = get_image_path(image); results = {}
OcrResolve(i) ==
    LET r == inv[i]
    IN  /\ r.pc = "ocr_resolve"
        /\ \E out \in get_image_path(r.input, fs) :
              /\ fs' = out.fs
              /\ inv' = [inv EXCEPT ![i] =
                    IF out.err # ""
                    THEN Raise(r, out.err)
                    ELSE LET resolved == [r EXCEPT !.image_path = out.path,
                                                   !.idx = 1]
                         IN  IF r.providers = <<>>
                             THEN CallPlot(resolved, StrInput(out.path),
                                           resolved.results, OUTPUT_DIR)
                             ELSE [resolved EXCEPT !.pc = "ocr_fanout"]]

\* one iteration of "for provider in providers" of process_ocr; after the
\* last one, the call of plot_bounding_boxes
OcrRequest(i) ==
    LET r == inv[i]
        provider == r.providers[r.idx]
    IN  /\ r.pc = "ocr_fanout"
        /\ UNCHANGED fs
        /\ IF provider \notin ProviderEnum
           THEN inv' = [inv EXCEPT ![i] = Raise(r, "KeyError")]
           ELSE \E out \in AdapterOutcomes("ocr") :
                  LET called == [r EXCEPT !.calls =
                                    Append(@, [provider |-> provider,
                                               ok |-> out.ok,
                                               seen |-> fs.files[r.image_path],
                                               response |-> out.response])]
                      stored == [called EXCEPT
                                    !.results = DictSet(@, provider, out.response),
                                    !.idx = @ + 1]
                  IN  inv' = [inv EXCEPT ![i] =
                        IF ~out.ok
                        THEN Raise(called, "AdapterError")
                        ELSE IF r.idx = Len(r.providers)
                             THEN CallPlot(stored, StrInput(r.image_path),
                                           stored.results, OUTPUT_DIR)
                             ELSE stored]

\* the loop over OCR_PROVIDERS and "return response"
OcrAssemble(i) ==
    LET r == inv[i]
        dummy_path == Join(".", "dummy.png")
        needs_dummy == \E k \in 1..Len(OCR_PROVIDERS) :
                          ~DictHas(r.plot_results, OCR_PROVIDERS[k])
    IN  /\ r.pc = "ocr_assemble"
        /\ UNCHANGED fs
        /\ inv' = [inv EXCEPT ![i] =
              IF needs_dummy /\ ~IsFile(fs, dummy_path)
              THEN Raise(r, "FileNotFoundError")
              ELSE [r EXCEPT !.pc = "done",
                             !.response =
                                AssembleOcr(r.plot_results, OCR_PROVIDERS,
                                            IF needs_dummy
                                            THEN fs.files[dummy_path]
                                            ELSE NoImage)]]

(***************************************************************************)
(* plot_bounding_boxes                                                     *)
(***************************************************************************)
\* a direct call plot_bounding_boxes(image_path, responses, output_dir)
CallPlotBoundingBoxes(i, image_path, responses, output_dir) ==
    /\ inv[i].pc = "idle"
    /\ inv' = [inv EXCEPT ![i] =
                  CallPlot([IdleInvocation EXCEPT !.task = "plot"],
                           image_path, responses, output_dir)]
    /\ UNCHANGED fs

\* image_path = get_image_path(image_path); img = Image.open(image_path);
\* results = {}
PlotOpen(i) ==
    LET r == inv[i]
    IN  /\ r.pc = "plot_open"
        /\ \E out \in get_image_path(r.plot_arg, fs) :
              /\ fs' = out.fs
              /\ inv' = [inv EXCEPT ![i] =
                    IF out.err # ""
                    THEN Raise(r, out.err)
                    ELSE LET opened == [r EXCEPT !.plot_path = out.path,
                                                 !.img = out.fs.files[out.path],
                                                 !.plot_results = <<>>,
                                                 !.pidx = 1]
                         IN  IF r.responses = <<>>
                             THEN ReturnFromPlot(opened)
                             ELSE [opened EXCEPT !.pc = "plot_render"]]

\* one iteration of "for provider, ocr_response in responses.items()", up to
\* img_result = Image.fromarray(img_array)
PlotRender(i) ==
    LET r == inv[i]
        ocr_response == r.responses[r.pidx][2]
        drawn == DrawBoxes(Subplots(r.fig, r.img), ocr_response.bounding_boxes)
    IN  /\ r.pc = "plot_render"
        /\ UNCHANGED fs
        /\ inv' = [inv EXCEPT ![i] =
              IF drawn.err # ""
              THEN Raise([r EXCEPT !.fig = drawn.ax], drawn.err)
              ELSE [r EXCEPT !.fig = drawn.ax, !.img_result = drawn.ax,
                             !.pc = "plot_persist"]]

\* the rest of the iteration: os.makedirs, img_result.save, results[provider]
\* = {...}, plt.close(fig); after the last one, "return results"
PlotPersist(i) ==
    LET r == inv[i]
        provider == r.responses[r.pidx][1]
        ocr_response == r.responses[r.pidx][2]
        output_path == OutputPath(r.output_dir, provider, r.plot_path)
        stored == [r EXCEPT !.plot_results =
                               DictSet(@, provider,
                                       [image |-> r.img_result,
                                        text |-> ocr_response.all_text]),
                            !.pidx = @ + 1]
    IN  /\ r.pc = "plot_persist"
        /\ \/ \* os.makedirs raises
              /\ fs' = fs
              /\ inv' = [inv EXCEPT ![i] = Raise(r, "OSError")]
           \/ \* img_result.save raises
              /\ fs' = MakeDirs(fs, r.output_dir)
              /\ inv' = [inv EXCEPT ![i] = Raise(r, "OSError")]
           \/ \* both succeed
              /\ fs' = WriteFile(MakeDirs(fs, r.output_dir), output_path,
                                 r.img_result)
              /\ inv' = [inv EXCEPT ![i] =
                    IF r.pidx = Len(r.responses)
                    THEN ReturnFromPlot(stored)
                    ELSE [stored EXCEPT !.pc = "plot_render"]]

(***************************************************************************)
(* process_transcription and process_translation                           *)
(***************************************************************************)
\* one iteration of "for provider in providers" of a text handler:
\* results[provider] = response.text
TextRequest(r, task, return_pc) ==
    LET provider == r.providers[r.idx]
    IN  IF provider \notin ProviderEnum
        THEN {Raise(r, "KeyError")}
        ELSE {LET called == [r EXCEPT !.calls =
                                Append(@, [provider |-> provider,
                                           ok |-> out.ok,
                                           seen |-> r.input.data,
                                           response |-> out.response])]
                  stored == [called EXCEPT
                                !.results = DictSet(@, provider, out.response.text),
                                !.idx = @ + 1]
              IN  IF ~out.ok
                  THEN Raise(called, "AdapterError")
                  ELSE IF r.idx = Len(r.providers)
                       THEN [stored EXCEPT !.pc = return_pc]
                       ELSE stored
              : out \in AdapterOutcomes(task)}

\* the display layer calls process_transcription(audio, providers)
CallProcessTranscription(i, audio, providers) ==
    /\ inv[i].pc = "idle"
    /\ inv' = [inv EXCEPT ![i] =
                  [IdleInvocation EXCEPT
                      !.pc = IF providers = <<>> THEN "transcription_return"
                                                 ELSE "transcription_fanout",
                      !.task = "transcription", !.input = audio,
                      !.providers = providers, !.idx = 1]]
    /\ UNCHANGED fs

TranscriptionRequest(i) ==
    /\ inv[i].pc = "transcription_fanout"
    /\ \E next \in TextRequest(inv[i], "transcription", "transcription_return") :
          inv' = [inv EXCEPT ![i] = next]
    /\ UNCHANGED fs

\* return [results.get(provider, "") for provider in ["AZURE", "OPENAI"]]
TranscriptionReturn(i) ==
    /\ inv[i].pc = "transcription_return"
    /\ inv' = [inv EXCEPT ![i] =
                  [@ EXCEPT !.pc = "done",
                            !.response = AssembleText(inv[i].results,
                                                      TRANSCRIPTION_PROVIDERS)]]
    /\ UNCHANGED fs

\* the display layer calls process_translation(text, providers, source_lang,
\* target_lang)
CallProcessTranslation(i, text, providers, source_lang, target_lang) ==
    /\ inv[i].pc = "idle"
    /\ inv' = [inv EXCEPT ![i] =
                  [IdleInvocation EXCEPT
                      !.pc = IF providers = <<>> THEN "translation_return"
                                                 ELSE "translation_fanout",
                      !.task = "translation", !.input = text,
                      !.options = <<source_lang, target_lang>>,
                      !.providers = providers, !.idx = 1]]
    /\ UNCHANGED fs

TranslationRequest(i) ==
    /\ inv[i].pc = "translation_fanout"
    /\ \E next \in TextRequest(inv[i], "translation", "translation_return") :
          inv' = [inv EXCEPT ![i] = next]
    /\ UNCHANGED fs

\* return [results.get(provider, "") for provider in ["ANTHROPIC", ...]]
TranslationReturn(i) ==
    /\ inv[i].pc = "translation_return"
    /\ inv' = [inv EXCEPT ![i] =
                  [@ EXCEPT !.pc = "done",
                            !.response = AssembleText(inv[i].results,
                                                      TRANSLATION_PROVIDERS)]]
    /\ UNCHANGED fs

(***************************************************************************)
(* Inputs.                                                                 *)
(***************************************************************************)
\* the provider names a caller may select: canonical ones of each task, a
\* member of the enumeration that is not canonical for OCR (OPENAI) or for
\* transcription (API4AI, AWS), and a name that is no member (BOGUS)
Names == {"API4AI", "AWS", "AZURE", "OPENAI", "BOGUS"}

\* selections: the checked boxes in the order they were checked
Selections ==
    UNION {{sel \in [1..n -> Names] :
               \A j, k \in 1..n : j # k => sel[j] # sel[k]} : n \in 0..MaxSel}

\* the audio file and the text handed to the text handlers
AudioInput == [type |-> "str", path |-> Path("a", "speech.wav"), data |-> Picture("speech")]

TextInput == [type |-> "text", path |-> NoPath, data |-> Picture("Hello, world!")]

(***************************************************************************)
(* One request at a time: the display layer calls a handler and waits.     *)
(***************************************************************************)
Init ==
    /\ inv = [i \in Invs |-> IdleInvocation]
    /\ fs \in {[files |-> InitialFiles, dirs |-> InitialDirs \cup made] :
                  made \in {{}, {OUTPUT_DIR}}}

Next ==
    \/ \E image \in ImageInputs, providers \in Selections :
          CallProcessOcr(1, image, providers)
    \/ OcrResolve(1)
    \/ OcrRequest(1)
    \/ PlotOpen(1)
    \/ PlotRender(1)
    \/ PlotPersist(1)
    \/ OcrAssemble(1)
    \/ \E providers \in Selections :
          CallProcessTranscription(1, AudioInput, providers)
    \/ TranscriptionRequest(1)
    \/ TranscriptionReturn(1)
    \/ \E providers \in Selections :
          CallProcessTranslation(1, TextInput, providers, "en", "fr")
    \/ TranslationRequest(1)
    \/ TranslationReturn(1)

Spec == Init /\ [][Next]_vars

(***************************************************************************)
(* plot_bounding_boxes called on its own, with boxes over a coordinate     *)
(* grid.  One provider answers with a box of the grid, a second one (in    *)
(* either dict order) with one of OcrResponses.                            *)
(***************************************************************************)
Coords == 0..MaxCoord

GridResponses ==
    {OcrResponse("w", <<Box(x0, y0, x2, y2, "w")>>) :
        x0 \in Coords, y0 \in Coords, x2 \in Coords, y2 \in Coords}
    \cup {OcrResponse("", <<>>)}

PlotResponseDicts ==
    {<<>>}
    \cup {<<<<p, g>>>> : p \in {"AWS", "GCP"}, g \in GridResponses}
    \cup UNION {{<<<<p, g>>, <<q, s>>>>, <<<<q, s>>, <<p, g>>>>} :
                   p \in {"AWS"}, q \in {"GCP"},
                   g \in GridResponses, s \in OcrResponses}

PlotImageInputs ==
    {StrInput(Path("a", "photo.png")),
     StrInput(Path("empty", "")),
     PilInput(Picture("imgP"))}

NextPlot ==
    \/ \E image_path \in PlotImageInputs, responses \in PlotResponseDicts,
          output_dir \in {OUTPUT_DIR, "plots"} :
          CallPlotBoundingBoxes(1, image_path, responses, output_dir)
    \/ PlotOpen(1)
    \/ PlotRender(1)
    \/ PlotPersist(1)

SpecPlot == Init /\ [][NextPlot]_vars

(***************************************************************************)
(* Two overlapping invocations of process_ocr: the display layer runs a    *)
(* second handler while the first is still in flight, and their steps      *)
(* interleave.                                                             *)
(***************************************************************************)
OverlapImageInputs ==
    {PilInput(Picture("imgP")),
     PilInput(Picture("imgQ")),
     StrInput(Path("a", "photo.png")),
     StrInput(Path("b", "photo.png"))}

OverlapSelections == {<<>>, <<"AWS">>, <<"GCP">>}

NextOverlap ==
    \E i \in Invs :
        \/ \E image \in OverlapImageInputs, providers \in OverlapSelections :
              CallProcessOcr(i, image, providers)
        \/ OcrResolve(i)
        \/ OcrRequest(i)
        \/ PlotOpen(i)
        \/ PlotRender(i)
        \/ PlotPersist(i)
        \/ OcrAssemble(i)

SpecOverlap == Init /\ [][NextOverlap]_vars

(***************************************************************************)
(* Properties.                                                             *)
(***************************************************************************)
\* the canonical provider order of a task
CanonicalOrder(task) ==
    CASE task = "transcription" -> TRANSCRIPTION_PROVIDERS
      [] task = "translation" -> TRANSLATION_PROVIDERS
      [] OTHER -> OCR_PROVIDERS

Canonical(task) == {CanonicalOrder(task)[k] : k \in 1..Len(CanonicalOrder(task))}

Selected(r) == {r.providers[k] : k \in 1..Len(r.providers)}

Handled(r) == r.task \in {"ocr", "transcription", "translation"}

\* the adapter call of invocation record r for provider p, if there was one
CallsFor(r, p) == {k \in 1..Len(r.calls) : r.calls[k].provider = p}

\* C1: if the adapter call for one selected provider fails, the request still
\* completes without raising: every other selected provider is still invoked
\* and collected, and the failing provider is absent from the result mapping.
C1_ProviderFailureIsolated ==
    \A i \in Invs :
        LET r == inv[i]
            failed == {r.calls[k].provider : k \in {j \in 1..Len(r.calls) : ~r.calls[j].ok}}
        IN  (Handled(r) /\ failed # {}) =>
               /\ r.pc # "raised"
               /\ r.pc = "done" =>
                     /\ \A p \in Selected(r) : CallsFor(r, p) # {}
                     /\ \A p \in failed : ~DictHas(r.results, p)

\* C2: the length of the returned output sequence is fixed per task kind,
\* whatever was selected: 12 for OCR, 2 for Transcription, 6 for Translation.
C2_OutputLengthFixed ==
    \A i \in Invs :
        LET r == inv[i]
        IN  r.pc = "done" =>
               Len(r.response) = CASE r.task = "ocr" -> 12
                                   [] r.task = "transcription" -> 2
                                   [] r.task = "translation" -> 6

\* C2 witness: OCR returned for the empty selection, and for a selection of
\* canonical providers the lengths are the same.
C2_Witness ==
    /\ inv[1].pc = "done"
    /\ inv[1].task = "ocr"
    /\ inv[1].providers = <<>>
    /\ Len(inv[1].response) = 12

\* C3: in the returned sequence the slot of canonical provider p holds p's own
\* response field(s) when p is in the result mapping and the placeholder when
\* it is not, in canonical order, whatever the order of selection.
C3_SlotsInCanonicalOrder ==
    \A i \in Invs :
        LET r == inv[i]
            order == CanonicalOrder(r.task)
            \* what the adapter answered for p
            answer(p) == r.calls[CHOOSE k \in CallsFor(r, p) : TRUE].response
        IN  r.pc = "done" =>
               \A k \in 1..Len(order) :
                  LET p == order[k]
                  IN  IF r.task = "ocr"
                      THEN IF DictHas(r.plot_results, p)
                           THEN /\ CallsFor(r, p) # {}
                                /\ r.response[2 * k - 1] = DictGet(r.plot_results, p).image
                                /\ r.response[2 * k] = answer(p).all_text
                           ELSE /\ r.response[2 * k - 1] = Picture("dummy")
                                /\ r.response[2 * k] = "foo bar"
                      ELSE IF DictHas(r.results, p)
                           THEN /\ CallsFor(r, p) # {}
                                /\ r.response[k] = answer(p).text
                           ELSE r.response[k] = ""

\* C3 witness: Translation with three of the six providers selected, not in
\* canonical order: six positions, three populated, three empty strings.
C3_Witness ==
    /\ inv[1].pc = "done"
    /\ inv[1].task = "translation"
    /\ inv[1].providers = <<"OPENAI", "AWS", "AZURE">>
    /\ inv[1].calls[1].response.text = "salut"
    /\ inv[1].calls[2].response.text = "bonjour"
    /\ inv[1].response = <<"", "bonjour", inv[1].calls[3].response.text, "", "", "salut">>

\* the image inputs that cannot be resolved: a path that is neither file nor
\* directory, a directory without an image file, an unsupported type
Unresolvable(image) ==
    \/ image.type \notin {"str", "pil"}
    \/ /\ image.type = "str"
       /\ image.path \notin DOMAIN InitialFiles
       /\ ~(image.path.name = "" /\ image.path.dir \in InitialDirs)
    \/ /\ image.type = "str"
       /\ image.path.name = ""
       /\ image.path.dir \in InitialDirs
       /\ \A q \in DOMAIN InitialFiles :
             q.dir = image.path.dir => LowerSuffix(q.name) \notin IMAGE_SUFFIXES

\* C4: when the OCR image input cannot be resolved, process_ocr fails with
\* the invalid-input error at once: no adapter was invoked, nothing was
\* rendered or persisted, and no output sequence is returned.
C4_InvalidInputAborts ==
    \A i \in Invs :
        LET r == inv[i]
        IN  (r.task = "ocr" /\ Unresolvable(r.input)) =>
               /\ r.pc = "ocr_resolve" \/ (r.pc = "raised" /\ r.error = "ValueError")
               /\ r.calls = <<>>
               /\ r.fig = NoImage
               /\ r.plot_results = <<>>
               /\ r.response = <<>>
               /\ fs.files = InitialFiles

\* C4 witness: process_ocr raised for a directory without an image file while
\* providers were selected.
C4_Witness ==
    /\ inv[1].pc = "raised"
    /\ inv[1].error = "ValueError"
    /\ inv[1].input = StrInput(Path("docs", ""))
    /\ Len(inv[1].providers) = 2

\* C5: persisting is best-effort: if creating the output directory or
\* saving the file fails for some provider, plot_bounding_boxes still returns
\* the mapping, with the entry of that provider and of those after it.
C5_PersistBestEffort ==
    \A i \in Invs :
        LET r == inv[i]
        IN  /\ r.error = "OSError" => r.pc # "raised"
            /\ r.pc = "returned" => DictKeys(r.plot_results) = DictKeys(r.responses)

\* C6: a render failure for one provider's OCR response is isolated to that
\* provider: the others still get their image and text, and assembly of the
\* output sequence is not aborted.
C6_RenderFailureIsolated ==
    \A i \in Invs :
        LET r == inv[i]
            malformed == {p \in DictKeys(r.responses) :
                             \E k \in 1..Len(DictGet(r.responses, p).bounding_boxes) :
                                Len(DictGet(r.responses, p).bounding_boxes[k].coordinates) < 3}
        IN  /\ r.error = "IndexError" => r.pc # "raised"
            /\ r.pc = "done" =>
                  DictKeys(r.responses) \ malformed \subseteq DictKeys(r.plot_results)

\* C7: a provider that is selected but is not in the task's canonical order
\* is ignored entirely: no adapter invocation, no rendering, no persisted
\* file, and the request does not fail because of it.
C7_NonCanonicalIgnored ==
    \A i \in Invs :
        LET r == inv[i]
            stray == Selected(r) \ Canonical(r.task)
        IN  Handled(r) =>
               /\ \A p \in stray : CallsFor(r, p) = {}
               /\ \A p \in stray : ~DictHas(r.plot_results, p)
               /\ \A p \in stray \cap ProviderEnum :
                     OutputPath(OUTPUT_DIR, p, r.image_path) \notin DOMAIN fs.files
               /\ ~(r.pc = "raised" /\ r.error = "KeyError")

\* the picture an invocation of process_ocr was given
OwnImage(image) ==
    IF image.type = "pil" THEN image.data ELSE InitialFiles[image.path]

\* C8: two overlapping invocations of process_ocr share no mutable state:
\* neither reads a file or buffer written by the other, and each returns
\* what it would return alone (its images show its own input).
C8_OverlappingInvocationsIndependent ==
    \A i \in Invs :
        LET r == inv[i]
        IN  r.task = "ocr" =>
               /\ \A k \in 1..Len(r.calls) : r.calls[k].seen = OwnImage(r.input)
               /\ r.plot_path # NoPath => r.img = OwnImage(r.input)
               /\ \A j \in 1..Len(r.plot_results) :
                     r.plot_results[j][2].image.base = OwnImage(r.input).base

\* C9: each provider's annotated image is rendered on its own fresh figure
\* over the unmodified original image: the rectangles and labels on p's image
\* are exactly those of p's bounding boxes, none of another provider's, and
\* the text stored for p is p's all_text.
C9_ImagesIndependent ==
    \A i \in Invs :
        LET r == inv[i]
        IN  \A j \in 1..Len(r.plot_results) :
               LET p == r.plot_results[j][1]
                   out == r.plot_results[j][2]
                   boxes == DictGet(r.responses, p).bounding_boxes
               IN  /\ out.text = DictGet(r.responses, p).all_text
                   /\ r.img = OwnImage(r.plot_arg)
                   /\ out.image.base = r.img.base
                   /\ out.image.rects = [k \in 1..Len(boxes) |-> Rectangle(boxes[k])]
                   /\ out.image.texts = [k \in 1..Len(boxes) |-> TextLabel(boxes[k])]

\* C9 witness: plot_bounding_boxes returned for two providers whose boxes
\* differ, the one rendered first with a box of its own.
C9_Witness ==
    /\ inv[1].pc = "returned"
    /\ Len(inv[1].plot_results) = 2
    /\ Len(inv[1].plot_results[1][2].image.rects) = 1
    /\ Len(inv[1].plot_results[2][2].image.rects) = 2
    /\ inv[1].plot_results[1][2].image.rects[1] # inv[1].plot_results[2][2].image.rects[1]
    /\ inv[1].plot_results[1][2].image.rects[1] # inv[1].plot_results[2][2].image.rects[2]

\* C10: for every bounding box with origin corner (x0,y0) = coordinates[0]
\* and opposite corner (x2,y2) = coordinates[2], the rectangle drawn is
\* anchored at (x0,y0) with width x2-x0 and height y2-y0, sign preserved:
\* negative extents are passed through and a zero-area box is still drawn.
C10_RectangleGeometry ==
    \A i \in Invs :
        LET r == inv[i]
        IN  \A j \in 1..Len(r.plot_results) :
               LET boxes == DictGet(r.responses, r.plot_results[j][1]).bounding_boxes
                   rects == r.plot_results[j][2].image.rects
               IN  /\ Len(rects) = Len(boxes)
                   /\ \A k \in 1..Len(boxes) :
                         LET c == boxes[k].coordinates
                         IN  /\ rects[k].xy = c[1]
                             /\ rects[k].width = c[3][1] - c[1][1]
                             /\ rects[k].height = c[3][2] - c[1][2]

\* C10 witness: a stored image shows a rectangle of negative width and height
\* and a rectangle of zero area.
C10_Witness ==
    \E j \in 1..Len(inv[1].plot_results) :
        LET rects == inv[1].plot_results[j][2].image.rects
        IN  /\ \E k \in 1..Len(rects) : rects[k].width < 0 /\ rects[k].height < 0
            /\ \E k \in 1..Len(rects) : rects[k].width = 0 /\ rects[k].height = 0

====
